---- MODULE Spec2Model ----
(***************************************************************************)
(* Model of scripts/migrate_metadata.py: the metadata backfill that reads  *)
(* image URLs from the cars collection, asks the remote image API for the  *)
(* metadata of each image and inserts it into the image_metadata           *)
(* collection, three URLs at a time.                                       *)
(*                                                                         *)
(* Strings of the program are sequences of one-character strings, so that  *)
(* urlparse and str.split are computed on the characters.  Python's None   *)
(* is the value None below; a dict is a function over Keys whose unused    *)
(* keys map to Absent.                                                     *)
(***************************************************************************)
EXTENDS Integers, Sequences, FiniteSets, Bags, TLC

\* ------------------------------------------------------------------ values

None == <<"None">>
Absent == <<"Absent">>

\* migrate_metadata.py:18
BATCH_SIZE == 3

\* The largest working set (distinct image URLs of the dataset) explored.
MaxUrls == 4

\* The longest URL handed to extract_image_id on its own.
MaxLen == 6

\* The two runs of the script that are modelled (a run and a re-run).
Runs == {1, 2}

\* ------------------------------------------------------- URL Parser (pure)

\* str.find for a set of delimiters: the first index >= from whose character
\* is in chars, or Len(s) + 1 when there is none.
FindAny(s, chars, from) ==
    LET hits == {n \in from..Len(s) : s[n] \in chars}
    IN  IF hits = {} THEN Len(s) + 1
        ELSE CHOOSE n \in hits : \A m \in hits : n <= m

Contains(s, c) == \E n \in 1..Len(s) : s[n] = c

\* urllib.parse.urlparse(url), for URLs without a scheme (no ":" in the
\* alphabet): a leading "//" starts a network location that runs to the next
\* "/", "?" or "#"; an unbalanced "[" or "]" in it raises ValueError (the
\* alphabet has no "]", so every "[" of a network location is unbalanced);
\* the path is what follows, up to the fragment and the query.
urlparse(url) ==
    LET hasNetloc == Len(url) >= 2 /\ url[1] = "/" /\ url[2] = "/"
        delim == FindAny(url, {"/", "?", "#"}, 3)
        netloc == IF hasNetloc THEN SubSeq(url, 3, delim - 1) ELSE <<>>
        rest == IF hasNetloc THEN SubSeq(url, delim, Len(url)) ELSE url
        stop == FindAny(rest, {"?", "#"}, 1)
    IN  [ fault |-> Contains(netloc, "[") # Contains(netloc, "]"),
          path |-> SubSeq(rest, 1, stop - 1) ]

\* str.split(sep): the segments between the separators, empty ones included;
\* a string without separator is a single segment.
split(s, sep) ==
    LET seps == {n \in 1..Len(s) : s[n] = sep}
        \* the position of the k-th separator; 0 and Len(s) + 1 bound the string
        cut(k) == IF k = 0 THEN 0
                  ELSE IF k > Cardinality(seps) THEN Len(s) + 1
                  ELSE CHOOSE n \in seps : Cardinality({m \in seps : m <= n}) = k
    IN  [k \in 1..(Cardinality(seps) + 1) |-> SubSeq(s, cut(k - 1) + 1, cut(k) - 1)]

\* extract_image_id(url): the segment at Python index 4 of the path, None
\* when the path has fewer than 5 segments or urlparse raised (the except
\* clause logs and falls through to "return None").
extract_image_id(url) ==
    LET parsed == urlparse(url)
        parts == split(parsed.path, "/")
    IN  IF parsed.fault THEN None
        ELSE IF Len(parts) >= 5 THEN parts[5]
        ELSE None

\* Python truthiness of an identifier ("if not image_id"): None and the
\* empty string are falsy.
Truthy(id) == id # None /\ id # <<>>

\* ------------------------------------------------------------ documents

Keys == {"imageId", "name", "createdAt", "updatedAt"}

EmptyDict == [key \in Keys |-> Absent]

\* time.time(): the current time, one opaque value.
time_time == <<"now">>

\* The metadata mapping the remote API holds for an image: it names the
\* image it belongs to.
RemoteMetadata(image_id) == [EmptyDict EXCEPT !["name"] = image_id]

\* A metadata mapping that itself carries the keys of the record.
ClashingMetadata(image_id) ==
    [EmptyDict EXCEPT !["name"] = image_id,
                      !["imageId"] = <<"x">>,
                      !["createdAt"] = <<"old">>]

\* The document of the dict display at lines 92-97,
\*   {'imageId': image_id, **metadata, 'createdAt': ..., 'updatedAt': ...}:
\* keys are set left to right, a later one replacing an earlier one.
Document(image_id, metadata) ==
    LET first == [EmptyDict EXCEPT !["imageId"] = image_id]
        spread == [key \in Keys |->
                     IF metadata[key] # Absent THEN metadata[key] ELSE first[key]]
    IN  [spread EXCEPT !["createdAt"] = time_time, !["updatedAt"] = time_time]

\* What get_cloudflare_metadata returns: None, or a metadata mapping.
NoResult == [none |-> TRUE, md |-> EmptyDict]
Mapping(md) == [none |-> FALSE, md |-> md]

\* "if metadata:" at line 89: None and the empty mapping are falsy.
ResultTruthy(res) == ~res.none /\ res.md # EmptyDict

\* ------------------------------------------------------------- the dataset

\* Image URLs of the dataset: two delivery URLs of image a (two variants),
\* one of image b, one whose path is too short to hold an identifier and
\* one that urlparse rejects.
UrlA == <<"/", "a", "/", "a", "/", "a", "/", "a">>
UrlA2 == UrlA \o <<"/", "b">>
UrlB == <<"/", "a", "/", "a", "/", "a", "/", "b">>
UrlShort == <<"/", "a">>
UrlBad == <<"/", "/", "[">>
UrlPool == {UrlA, UrlA2, UrlB, UrlShort, UrlBad}

\* URLs whose path has too few segments to hold an identifier.
ShortUrls ==
    {<<"/", c>> : c \in {"a", "b"}} \cup {<<"/", c, "/", d>> : c, d \in {"a", "b"}}

\* A working set that takes three batches: one delivery URL and six URLs
\* without identifier.
LongUrls == ShortUrls \cup {UrlA}

AllUrls == UrlPool \cup LongUrls

Range(s) == {s[n] : n \in 1..Len(s)}

\* The orderings of a finite set: list(set(...)) yields its elements once
\* each, in an order the program does not control.
Orderings(S) ==
    {f \in [1..Cardinality(S) -> S] : \A m, n \in 1..Cardinality(S) : f[m] = f[n] => m = n}

Reverse(s) == [n \in 1..Len(s) |-> s[Len(s) + 1 - n]]

\* The cars collection for a set S of image URLs: one car that lists them
\* all, one that lists the same images again, and one without images.
CarsOf(S) ==
    LET images == CHOOSE f \in Orderings(S) : TRUE
    IN  << [images |-> images], [images |-> Reverse(images)], [images |-> <<>>] >>

Datasets == {CarsOf(S) : S \in {T \in SUBSET UrlPool : Cardinality(T) <= MaxUrls}}

\* A record that is in image_metadata before the first run.
OldDocument(image_id) ==
    [EmptyDict EXCEPT !["imageId"] = image_id, !["name"] = image_id,
                      !["createdAt"] = <<"old">>, !["updatedAt"] = <<"old">>]

InitialStores == {EmptyBag, SetToBag({OldDocument(<<"a">>)})}

\* -------------------------------------------------------------- the state

VARIABLES
    ImageId,    \* extract_image_id of every URL of the datasets, computed once
    cars,       \* db.cars
    creds,      \* CLOUDFLARE_ACCOUNT_ID and CLOUDFLARE_API_TOKEN are both set
    store,      \* db.image_metadata, a bag of documents
    store0,     \* db.image_metadata before the first run
    clean,      \* so far every response was a success with metadata and no
                \* storage call raised
    pc,         \* where each run is in migrate_metadata / process_batch
    status,     \* "running", "completed" (line 134) or "failed" (line 137)
    exc,        \* what raised the exception that reached line 136: "none",
                \* "query" (line 109), "find_one" (line 74), "credentials" (line 38)
    conn,       \* the MongoClient of each run: "none", "open", "closed"
    closes,     \* how often client.close() was called in each run
    urls,       \* all_image_urls
    i,          \* the loop variable of line 121
    delays,     \* how often line 132 slept
    netCalls,   \* how many GETs line 47 issued
    netOpen,    \* how many calls of get_cloudflare_metadata have issued their GET
                \* and not returned yet
    fetchCount, \* how often get_cloudflare_metadata ran for each URL
    batch,      \* process_batch: its argument
    at,         \* process_batch: the position of the loop of line 67 (from 1)
    tasks,      \* process_batch: the coroutines of line 80 and their progress
    results,    \* process_batch: what gather returned
    origin,     \* for each result, the batch position of the URL it was fetched for
    zipAt,      \* process_batch: the position of the loop of line 88 (from 1)
    ins,        \* process_batch: the outcome of each iteration of line 88
    callUrl,    \* extract_image_id called on its own: its argument
    path,       \* extract_image_id: the local of line 26
    parts,      \* extract_image_id: the local of line 28
    ret,        \* extract_image_id: what it returned
    px          \* extract_image_id: where the call is

vars == << ImageId, cars, creds, store, store0, clean, pc, status, exc, conn, closes, urls, i,
           delays, netCalls, netOpen, fetchCount, batch, at, tasks, results, origin,
           zipAt, ins, callUrl, path, parts, ret, px >>

driverVars == << status, conn, closes, urls, i, delays >>
batchVars == << batch, at, tasks, results, origin, zipAt, ins >>
callVars == << callUrl, path, parts, ret, px >>
envVars == << ImageId, cars, creds, store0, callVars >>
netVars == << netCalls, netOpen, fetchCount >>

\* No run has started.
Fresh ==
    /\ ImageId = [url \in AllUrls |-> extract_image_id(url)]
    /\ store0 = store
    /\ clean = TRUE
    /\ pc = [r \in Runs |-> "idle"]
    /\ status = [r \in Runs |-> "running"]
    /\ exc = [r \in Runs |-> "none"]
    /\ conn = [r \in Runs |-> "none"]
    /\ closes = [r \in Runs |-> 0]
    /\ urls = [r \in Runs |-> <<>>]
    /\ i = [r \in Runs |-> 0]
    /\ delays = [r \in Runs |-> 0]
    /\ netCalls = [r \in Runs |-> 0]
    /\ netOpen = [r \in Runs |-> 0]
    /\ fetchCount = [r \in Runs |-> [url \in AllUrls |-> 0]]
    /\ batch = [r \in Runs |-> <<>>]
    /\ at = [r \in Runs |-> 1]
    /\ tasks = [r \in Runs |-> <<>>]
    /\ results = [r \in Runs |-> <<>>]
    /\ origin = [r \in Runs |-> <<>>]
    /\ zipAt = [r \in Runs |-> 1]
    /\ ins = [r \in Runs |-> <<>>]

\* extract_image_id is not called on its own.
NoCall ==
    /\ callUrl = <<>>
    /\ path = <<>>
    /\ parts = <<>>
    /\ ret = None
    /\ px = "idle"

Init ==
    /\ cars \in Datasets
    /\ creds \in BOOLEAN
    /\ store \in InitialStores
    /\ Fresh
    /\ NoCall

\* The datasets of Init and one whose working set takes three batches.
InitLong ==
    \/ Init
    \/ /\ cars = CarsOf(LongUrls)
       /\ creds = TRUE
       /\ store = EmptyBag
       /\ Fresh
       /\ NoCall

\* The locals of process_batch, gone when it returns or raises.
ClearBatch(r) ==
    /\ batch' = [batch EXCEPT ![r] = <<>>]
    /\ at' = [at EXCEPT ![r] = 1]
    /\ tasks' = [tasks EXCEPT ![r] = <<>>]
    /\ results' = [results EXCEPT ![r] = <<>>]
    /\ origin' = [origin EXCEPT ![r] = <<>>]
    /\ zipAt' = [zipAt EXCEPT ![r] = 1]
    /\ ins' = [ins EXCEPT ![r] = <<>>]

\* ------------------------------------------------------- migrate_metadata

\* Lines 104-105: the client is constructed.
Start(r) ==
    /\ pc[r] = "idle"
    /\ conn' = [conn EXCEPT ![r] = "open"]
    /\ pc' = [pc EXCEPT ![r] = "query"]
    /\ UNCHANGED << envVars, exc, store, clean, status, closes, urls, i, delays,
                    netVars, batchVars >>

\* The query of line 109: the cars whose images field is not the empty list.
FindCars(collection) == SelectSeq(collection, LAMBDA car : car.images # <<>>)

\* Lines 113-116: the image URLs of the cars found, each once.
UniqueUrls(found) == UNION {Range(found[n].images) : n \in 1..Len(found)}

\* Lines 109-117: the query raises (handled at line 136), or the working set
\* is built, in some order.
Query(r) ==
    /\ pc[r] = "query"
    /\ \/ /\ pc' = [pc EXCEPT ![r] = "except"]
          /\ exc' = [exc EXCEPT ![r] = "query"]
          /\ clean' = FALSE
          /\ UNCHANGED << urls, i >>
       \/ /\ \E order \in Orderings(UniqueUrls(FindCars(cars))) :
                urls' = [urls EXCEPT ![r] = order]
          /\ i' = [i EXCEPT ![r] = 0]
          /\ pc' = [pc EXCEPT ![r] = "for"]
          /\ UNCHANGED << clean, exc >>
    /\ UNCHANGED << envVars, store, status, conn, closes, delays, netVars, batchVars >>

\* A changed slice: everything from i on.
SliceRest(list, from) == SubSeq(list, from + 1, Len(list))

\* all_image_urls[i:i + BATCH_SIZE]
Slice(list, from) ==
    SubSeq(list, from + 1, IF from + BATCH_SIZE < Len(list) THEN from + BATCH_SIZE ELSE Len(list))

\* Lines 121-127 and 134: the next batch is handed to process_batch, or the
\* loop is over and the run has completed.
ForBatch(r) ==
    /\ pc[r] = "for"
    /\ IF i[r] < Len(urls[r])
       THEN /\ batch' = [batch EXCEPT ![r] = Slice(urls[r], i[r])]
            /\ pc' = [pc EXCEPT ![r] = "check"]
            /\ UNCHANGED status
       ELSE /\ status' = [status EXCEPT ![r] = "completed"]
            /\ pc' = [pc EXCEPT ![r] = "finally"]
            /\ UNCHANGED batch
    /\ UNCHANGED << envVars, exc, store, clean, conn, closes, urls, i, delays, netVars,
                    at, tasks, results, origin, zipAt, ins >>

\* A changed condition: a delay follows every batch.
DelayAlways(r) == TRUE

\* Line 130: a delay follows every batch but the last.
DelayDue(r) == i[r] + BATCH_SIZE < Len(urls[r])

\* Lines 129-132, after process_batch returned.
AfterBatch(r) ==
    /\ pc[r] = "after_batch"
    /\ IF DelayDue(r)
       THEN /\ pc' = [pc EXCEPT ![r] = "sleep"]
            /\ delays' = [delays EXCEPT ![r] = @ + 1]
            /\ UNCHANGED i
       ELSE /\ pc' = [pc EXCEPT ![r] = "for"]
            /\ i' = [i EXCEPT ![r] = @ + BATCH_SIZE]
            /\ UNCHANGED delays
    /\ ClearBatch(r)
    /\ UNCHANGED << envVars, exc, store, clean, status, conn, closes, urls, netVars >>

\* Line 132: asyncio.sleep(DELAY) is over; the loop goes on.
Sleep(r) ==
    /\ pc[r] = "sleep"
    /\ pc' = [pc EXCEPT ![r] = "for"]
    /\ i' = [i EXCEPT ![r] = @ + BATCH_SIZE]
    /\ UNCHANGED << envVars, exc, store, clean, status, conn, closes, urls, delays,
                    netVars, batchVars >>

\* A changed handler: after an exception the function returns without
\* closing the client.
ExceptWithoutClose(r) ==
    /\ pc[r] = "except"
    /\ status' = [status EXCEPT ![r] = "failed"]
    /\ pc' = [pc EXCEPT ![r] = "done"]
    /\ ClearBatch(r)
    /\ UNCHANGED << envVars, exc, store, clean, conn, closes, urls, i, delays, netVars >>

\* Lines 136-137: an exception of the guarded region is logged.
Except(r) ==
    /\ pc[r] = "except"
    /\ status' = [status EXCEPT ![r] = "failed"]
    /\ pc' = [pc EXCEPT ![r] = "finally"]
    /\ ClearBatch(r)
    /\ UNCHANGED << envVars, exc, store, clean, conn, closes, urls, i, delays, netVars >>

\* Lines 138-140: the client is closed and migrate_metadata returns.
Close(r) ==
    /\ pc[r] = "finally"
    /\ conn' = [conn EXCEPT ![r] = "closed"]
    /\ closes' = [closes EXCEPT ![r] = @ + 1]
    /\ pc' = [pc EXCEPT ![r] = "done"]
    /\ urls' = [urls EXCEPT ![r] = <<>>]
    /\ i' = [i EXCEPT ![r] = 0]
    /\ fetchCount' = [fetchCount EXCEPT ![r] = [url \in AllUrls |-> 0]]
    /\ UNCHANGED << envVars, exc, store, clean, status, delays, netCalls, netOpen,
                    batchVars >>

\* ---------------------------------------------------------- process_batch

\* How many documents of a collection have the given imageId.
CountFor(image_id, collection) ==
    LET matching == {doc \in BagToSet(collection) : doc["imageId"] = image_id}
    IN  BagCardinality([doc \in matching |-> CopiesIn(doc, collection)])

\* A changed existence check: it never finds a document.
ExistingNever(image_id, collection) == FALSE

\* Lines 74-75: find_one({'imageId': image_id}) found a document.
Existing(image_id, collection) == CountFor(image_id, collection) > 0

\* No response has arrived.
NoResponse == [exc |-> FALSE, status |-> 0, success |-> FALSE, metadata |-> EmptyDict]

\* Line 80: a coroutine of get_cloudflare_metadata, not started yet.
NewTask(n, image_id) ==
    [pos |-> n, image_id |-> image_id, at |-> "new", result |-> NoResult, log |-> "none",
     resp |-> NoResponse]

\* Lines 82-85: the loop of line 67 is over.
AfterChecks(r, created) ==
    IF at[r] < Len(batch[r])
    THEN /\ at' = [at EXCEPT ![r] = @ + 1]
         /\ UNCHANGED pc
    ELSE /\ pc' = [pc EXCEPT ![r] = IF created = <<>> THEN "after_batch" ELSE "gather"]
         /\ UNCHANGED at

\* Lines 67-83, one URL of the batch: no identifier (skipped); the existence
\* check raises (a storage fault, or the await of a result that cannot be
\* awaited; nothing in process_batch handles it); a record exists (skipped);
\* or a fetch is created.
CheckUrl(r) ==
    /\ pc[r] = "check"
    /\ LET image_id == ImageId[batch[r][at[r]]]
       IN  IF ~Truthy(image_id)
           THEN /\ AfterChecks(r, tasks[r])
                /\ UNCHANGED << tasks, clean, exc >>
           ELSE \/ /\ pc' = [pc EXCEPT ![r] = "except"]
                   /\ exc' = [exc EXCEPT ![r] = "find_one"]
                   /\ clean' = FALSE
                   /\ UNCHANGED << tasks, at >>
                \/ /\ Existing(image_id, store)
                   /\ AfterChecks(r, tasks[r])
                   /\ UNCHANGED << tasks, clean, exc >>
                \/ /\ ~Existing(image_id, store)
                   /\ tasks' = [tasks EXCEPT ![r] = Append(@, NewTask(at[r], image_id))]
                   /\ AfterChecks(r, tasks'[r])
                   /\ UNCHANGED << clean, exc >>
    /\ UNCHANGED << envVars, store, driverVars, netVars, batch, results, origin, zipAt, ins >>

\* What the remote API may answer: an exception of the transport (exc), or
\* a status with, for 200, the success flag and the metadata of the body.
Responses(image_id) ==
    {[exc |-> FALSE, status |-> 200, success |-> TRUE, metadata |-> md] :
        md \in {RemoteMetadata(image_id), ClashingMetadata(image_id), EmptyDict}}
    \cup {[exc |-> FALSE, status |-> 200, success |-> FALSE, metadata |-> EmptyDict],
          [exc |-> FALSE, status |-> 429, success |-> FALSE, metadata |-> EmptyDict],
          [exc |-> FALSE, status |-> 500, success |-> FALSE, metadata |-> EmptyDict],
          [exc |-> TRUE, status |-> 0, success |-> FALSE, metadata |-> EmptyDict]}

\* A changed function: it has no except clause.
OnTransportFaultRaise(task) == [task EXCEPT !.at = "raised"]

\* Lines 60-62: an exception of the request is logged; None is returned.
OnTransportFault(task) == [task EXCEPT !.at = "done", !.result = NoResult, !.log = "exception"]

\* Lines 46-62: what a response makes of the coroutine, which keeps the
\* response it got.
OnResponse(task, resp) ==
    LET got == [task EXCEPT !.resp = resp]
    IN  IF resp.exc
        THEN OnTransportFault(got)
        ELSE IF resp.status = 200
        THEN IF resp.success
             THEN [got EXCEPT !.at = "done", !.result = Mapping(resp.metadata)]
             ELSE [got EXCEPT !.at = "done", !.result = NoResult]
        ELSE IF resp.status = 429
        THEN [got EXCEPT !.at = "sleeping", !.log = "warning"]
        ELSE [got EXCEPT !.at = "done", !.result = NoResult, !.log = "error"]

\* A changed start of the coroutine: the GET is issued without the check of
\* the credentials.
OnStartUnchecked(task, credentials) == [task EXCEPT !.at = "inflight"]

\* Lines 37-47: the coroutine starts; without credentials it raises, with
\* them it issues the GET.
OnStart(task, credentials) ==
    IF credentials THEN [task EXCEPT !.at = "inflight"] ELSE [task EXCEPT !.at = "raised"]

\* A changed sleep: it blocks the thread, so no other coroutine of the run
\* is resumed while one sleeps.
LoopBlocked(r, t) ==
    \A s \in 1..Len(tasks[r]) : s # t => tasks[r][s].at # "sleeping"

\* Line 55: "await asyncio.sleep(5)" suspends the coroutine that awaits it;
\* the event loop goes on resuming the others.
LoopFree(r, t) == TRUE

\* Lines 35-47: gather runs the body of a coroutine up to its first await.
TaskStart(r, t) ==
    /\ pc[r] = "gather"
    /\ LoopFree(r, t)
    /\ tasks[r][t].at = "new"
    /\ tasks' = [tasks EXCEPT ![r][t] = OnStart(@, creds)]
    /\ netCalls' = [netCalls EXCEPT ![r] = IF tasks'[r][t].at = "inflight" THEN @ + 1 ELSE @]
    /\ netOpen' = [netOpen EXCEPT ![r] = IF tasks'[r][t].at = "inflight" THEN @ + 1 ELSE @]
    /\ fetchCount' = [fetchCount EXCEPT ![r][batch[r][tasks[r][t].pos]] = @ + 1]
    /\ UNCHANGED << envVars, exc, store, clean, pc, driverVars, batch, at, results, origin,
                    zipAt, ins >>

\* Lines 47-62: the response arrives, or the transport raises.
TaskRespond(r, t) ==
    /\ pc[r] = "gather"
    /\ LoopFree(r, t)
    /\ tasks[r][t].at = "inflight"
    /\ \E resp \in Responses(tasks[r][t].image_id) :
          /\ tasks' = [tasks EXCEPT ![r][t] = OnResponse(@, resp)]
          /\ clean' = (clean /\ ResultTruthy(tasks'[r][t].result))
    /\ netOpen' = [netOpen EXCEPT ![r] = IF tasks'[r][t].at = "done" THEN @ - 1 ELSE @]
    /\ UNCHANGED << envVars, exc, store, pc, driverVars, netCalls, fetchCount, batch, at,
                    results, origin, zipAt, ins >>

\* A changed rate-limit branch: after the sleep the request is made again.
OnWakeRetry(task) == [task EXCEPT !.at = "new"]

\* Lines 55-56: after the sleep the coroutine returns None.
OnWake(task) == [task EXCEPT !.at = "done", !.result = NoResult]

\* Lines 55-56: the sleep after a 429 is over.
TaskWake(r, t) ==
    /\ pc[r] = "gather"
    /\ tasks[r][t].at = "sleeping"
    /\ tasks' = [tasks EXCEPT ![r][t] = OnWake(@)]
    /\ netOpen' = [netOpen EXCEPT ![r] = @ - 1]
    /\ UNCHANGED << envVars, exc, store, clean, pc, driverVars, netCalls, fetchCount, batch,
                    at, results, origin, zipAt, ins >>

\* A changed join: the fan-out is left as soon as one coroutine has returned.
JoinedFirst(r) == \E t \in 1..Len(tasks[r]) : tasks[r][t].at = "done"

\* Line 85: gather waits for every coroutine it was given.
Joined(r) == \A t \in 1..Len(tasks[r]) : tasks[r][t].at = "done"

\* Line 85: gather returns the results in the order of the coroutines.
GatherReturn(r) ==
    /\ pc[r] = "gather"
    /\ Joined(r)
    /\ results' = [results EXCEPT ![r] = [t \in 1..Len(tasks[r]) |-> tasks[r][t].result]]
    /\ origin' = [origin EXCEPT ![r] = [t \in 1..Len(tasks[r]) |-> tasks[r][t].pos]]
    /\ tasks' = [tasks EXCEPT ![r] = <<>>]
    /\ pc' = [pc EXCEPT ![r] = "persist"]
    /\ UNCHANGED << envVars, exc, store, clean, driverVars, netVars, batch, at, zipAt, ins >>

\* Line 85: gather raises what a coroutine raised; process_batch has no
\* handler, so the exception reaches line 136.
GatherRaise(r) ==
    /\ pc[r] = "gather"
    /\ \E t \in 1..Len(tasks[r]) : tasks[r][t].at = "raised"
    /\ pc' = [pc EXCEPT ![r] = "except"]
    /\ exc' = [exc EXCEPT ![r] = "credentials"]
    /\ UNCHANGED << envVars, store, clean, driverVars, netVars, batchVars >>

\* Line 88: zip(batch, results) pairs the URL and the result of the same
\* position, and stops with the shorter of the two.
ZipLen(b, res) == IF Len(b) < Len(res) THEN Len(b) ELSE Len(res)
ZipUrl(b, n) == b[n]

\* Lines 91-100: what an insert that raised leaves of the loop: the
\* exception is logged and the loop goes on.
AfterInsert(r) ==
    IF zipAt[r] < ZipLen(batch[r], results[r])
    THEN /\ zipAt' = [zipAt EXCEPT ![r] = @ + 1]
         /\ UNCHANGED pc
    ELSE /\ pc' = [pc EXCEPT ![r] = "after_batch"]
         /\ UNCHANGED zipAt

\* A changed handler: the exception of an insert leaves process_batch.
OnInsertFaultAbort(r) ==
    /\ pc' = [pc EXCEPT ![r] = "except"]
    /\ UNCHANGED zipAt

OnInsertFault(r) == AfterInsert(r)

\* A changed test: a result is inserted only if the store holds no record
\* of the identifier by now.
InsertIfAbsent(metadata, image_id, collection) ==
    ResultTruthy(metadata) /\ CountFor(image_id, collection) = 0

\* Lines 89-91: a result with metadata is inserted; the store is not looked
\* at again.
InsertDue(metadata, image_id, collection) == ResultTruthy(metadata)

\* Lines 88-100, one pair of the zip.
Persist(r) ==
    /\ pc[r] = "persist"
    /\ LET metadata == results[r][zipAt[r]]
           image_id == ImageId[ZipUrl(batch[r], zipAt[r])]
       IN  IF InsertDue(metadata, image_id, store)
           THEN \/ /\ store' = store (+) SetToBag({Document(image_id, metadata.md)})
                   /\ ins' = [ins EXCEPT ![r] = Append(@, "ok")]
                   /\ AfterInsert(r)
                   /\ UNCHANGED clean
                \/ /\ ins' = [ins EXCEPT ![r] = Append(@, "fault")]
                   /\ clean' = FALSE
                   /\ OnInsertFault(r)
                   /\ UNCHANGED store
           ELSE /\ ins' = [ins EXCEPT ![r] = Append(@, "falsy")]
                /\ AfterInsert(r)
                /\ UNCHANGED << store, clean >>
    /\ UNCHANGED << envVars, exc, driverVars, netVars, batch, at, tasks, results, origin >>

\* ------------------------------------------------------ the specification

\* The steps of run r of the script.
Run(r) ==
    \/ Start(r)
    \/ Query(r)
    \/ ForBatch(r)
    \/ CheckUrl(r)
    \/ \E t \in 1..Len(tasks[r]) : TaskStart(r, t)
    \/ \E t \in 1..Len(tasks[r]) : TaskRespond(r, t)
    \/ \E t \in 1..Len(tasks[r]) : TaskWake(r, t)
    \/ GatherReturn(r)
    \/ GatherRaise(r)
    \/ Persist(r)
    \/ AfterBatch(r)
    \/ Sleep(r)
    \/ Except(r)
    \/ Close(r)

\* One run of the script.
Next == Run(1)

Spec == Init /\ [][Next]_vars

\* The event loop runs what is ready and every request is answered or
\* fails, so a run that can take a step takes one.
FairSpec == Spec /\ WF_vars(Next)

\* The script is run, and run again when the first run has returned.
Rerun == pc[1] = "done" /\ Run(2)

NextRerun == Run(1) \/ Rerun

SpecRerun == Init /\ [][NextRerun]_vars

\* One run of the script, also over the long working set.
SpecLong == InitLong /\ [][Next]_vars

\* Four of the URLs without identifier: a working set of two batches.
ShortPairs == {<<"/", c, "/", d>> : c, d \in {"a", "b"}}

\* Two runs of the script at the same time, each with its own client, over
\* one delivery URL (with and without credentials) or over ShortPairs.
InitConcurrent ==
    /\ \/ cars = CarsOf({UrlA}) /\ creds \in BOOLEAN
       \/ cars = CarsOf(ShortPairs) /\ creds = TRUE
    /\ store = EmptyBag
    /\ Fresh
    /\ NoCall

NextConcurrent == Run(1) \/ Run(2)

SpecConcurrent == InitConcurrent /\ [][NextConcurrent]_vars

\* ----------------------------------------- extract_image_id on its own

\* The characters of the URLs tried: the separator of the path, a letter,
\* the delimiters of query and fragment, and the bracket urlparse rejects.
Alphabet == {"/", "a", "?", "#", "["}

UrlInputs == UNION {[1..n -> Alphabet] : n \in 0..MaxLen}

InitExtract ==
    /\ callUrl \in UrlInputs
    /\ path = <<>>
    /\ parts = <<>>
    /\ ret = None
    /\ px = "call"
    /\ cars = <<>>
    /\ creds = FALSE
    /\ store = EmptyBag
    /\ Fresh

scriptVars == << ImageId, cars, creds, store0, store, clean, pc, status, exc, driverVars, netVars,
                batchVars >>

\* A changed function: it has no except clause.
OnParseFaultRaise == "raised"

\* Lines 31-32: an exception of the try block is caught.
OnParseFault == "except"

\* Line 26: urlparse(url).path, for the argument callUrl.
ParseUrl ==
    /\ px = "call"
    /\ LET parsed == urlparse(callUrl)
       IN  IF parsed.fault
           THEN px' = OnParseFault /\ UNCHANGED path
           ELSE px' = "split" /\ path' = parsed.path
    /\ UNCHANGED << scriptVars, callUrl, parts, ret >>

\* Line 28: path.split('/').
SplitPath ==
    /\ px = "split"
    /\ parts' = split(path, "/")
    /\ px' = "test"
    /\ UNCHANGED << scriptVars, callUrl, path, ret >>

\* Lines 29-30 and 33: parts[4], or None.
TestParts ==
    /\ px = "test"
    /\ ret' = IF Len(parts) >= 5 THEN parts[5] ELSE None
    /\ px' = "returned"
    /\ UNCHANGED << scriptVars, callUrl, path, parts >>

\* Lines 31-33: the exception is logged and None is returned.
LogAndReturn ==
    /\ px = "except"
    /\ ret' = None
    /\ px' = "returned"
    /\ UNCHANGED << scriptVars, callUrl, path, parts >>

NextExtract == ParseUrl \/ SplitPath \/ TestParts \/ LogAndReturn

SpecExtract == InitExtract /\ [][NextExtract]_vars

\* ------------------------------------------------------------- properties

\* The identifiers the URLs of a collection of cars yield.
IdsOf(collection) ==
    {id \in {ImageId[u] : u \in UniqueUrls(FindCars(collection))} : Truthy(id)}

\* The batch positions process_batch created a fetch for, while it still
\* holds the coroutines and after gather returned.
Fetched(r) == {tasks[r][t].pos : t \in 1..Len(tasks[r])} \cup Range(origin[r])

\* C1: every record process_batch inserts is inserted under the identifier
\* of the URL whose fetch returned the record's metadata, and never for a
\* URL of the batch that was skipped.
C1_ResultsCorrelated ==
    \A r \in Runs : \A n \in 1..Len(ins[r]) :
        ins[r][n] = "ok" =>
            /\ n \in Fetched(r)
            /\ ImageId[batch[r][n]] = ImageId[batch[r][origin[r][n]]]

\* C2: with one run at a time and at most one record per identifier at the
\* start, the store never holds two records of one identifier (so an
\* identifier that had a record before the run gets no further one).
C2_AtMostOncePerIdentifier ==
    \A id \in IdsOf(cars) : CountFor(id, store) <= 1

\* C3: after the script ran twice in a row, with every response a success
\* carrying metadata and no storage call raising, the store holds exactly one
\* record for each identifier of the working set.
C3_RerunIdempotent ==
    (pc[1] = "done" /\ pc[2] = "done" /\ creds /\ clean)
        => \A id \in IdsOf(cars) : CountFor(id, store) = 1

\* The persisting loop of run r is over: process_batch has returned after a
\* fan-out.
Persisted(r) == pc[r] = "after_batch" /\ results[r] # <<>>

\* C4: when a batch has completed without an insert raising, every fetch of
\* it that returned metadata has its record in the store: the identifier of
\* the URL it was made for with the metadata it returned.
C4_SuccessPersisted ==
    \A r \in Runs :
        (Persisted(r) /\ \A n \in 1..Len(ins[r]) : ins[r][n] # "fault")
            => \A t \in 1..Len(results[r]) :
                   ResultTruthy(results[r][t]) =>
                       BagIn(Document(ImageId[batch[r][origin[r][t]]],
                                      results[r][t].md), store)

\* C5: a URL whose fetch returned nothing (None or an empty mapping) is not
\* inserted by its batch.
C5_NothingNotInserted ==
    \A r \in Runs : \A t \in 1..Len(results[r]) :
        ~ResultTruthy(results[r][t]) =>
            ~(origin[r][t] <= Len(ins[r]) /\ ins[r][origin[r][t]] = "ok")

\* C6: while process_batch checks and fetches, no fetch exists for an
\* identifier that has a record in the store: the URLs whose identifier was
\* found are skipped before the fetcher is called.
C6_ExistingNotFetched ==
    \A r \in Runs :
        pc[r] \in {"check", "gather"} =>
            \A t \in 1..Len(tasks[r]) : CountFor(tasks[r][t].image_id, store) = 0

\* A URL of the batch was skipped because its record exists, and the fetch
\* of another URL of the batch has returned.
C6_Witness ==
    /\ pc[1] = "gather"
    /\ \E n \in 1..Len(batch[1]) :
          /\ Truthy(ImageId[batch[1][n]])
          /\ CountFor(ImageId[batch[1][n]], store) > 0
    /\ \E t \in 1..Len(tasks[1]) : tasks[1][t].at = "done"

\* C7: with the credentials set, a fault of the existence check does not
\* reach the handler of the driver (it would end the run).
C7_NoFaultPropagates == \A r \in Runs : creds => exc[r] # "find_one"

\* C8: without credentials no GET is issued and no record is inserted, a
\* fan-out never returns results, and once a fetch has raised the run only
\* goes on to the handler of the driver and the close: it fails and starts
\* no other batch.
C8_MissingCredentials ==
    ~creds =>
        \A r \in Runs :
            /\ netCalls[r] = 0
            /\ store = store0
            /\ results[r] = <<>>
            /\ \A t \in 1..Len(tasks[r]) : tasks[r][t].at \in {"new", "raised"}
            /\ (\E t \in 1..Len(tasks[r]) : tasks[r][t].at = "raised")
                   => pc[r] \in {"gather", "except"}
            /\ exc[r] = "credentials" =>
                   /\ pc[r] \in {"except", "finally", "done"}
                   /\ status[r] # "completed"
                   /\ pc[r] # "except" => status[r] = "failed"

\* A run without credentials has failed on the first batch with another
\* batch still to come.
C8_Witness ==
    /\ ~creds
    /\ pc[1] = "finally"
    /\ status[1] = "failed"
    /\ exc[1] = "credentials"
    /\ i[1] + BATCH_SIZE < Len(urls[1])

\* C9: an insert that raised leaves process_batch in its loop; when the
\* batch has completed every result was visited, every result with metadata
\* was inserted or raised, and the inserted ones are in the store.
C9_InsertFaultIsolated ==
    \A r \in Runs :
        /\ (\E n \in 1..Len(ins[r]) : ins[r][n] = "fault")
               => pc[r] \in {"persist", "after_batch"}
        /\ Persisted(r) =>
               /\ Len(ins[r]) = Len(results[r])
               /\ \A n \in 1..Len(results[r]) :
                      ResultTruthy(results[r][n]) =>
                          /\ ins[r][n] \in {"ok", "fault"}
                          /\ ins[r][n] = "ok" =>
                                 BagIn(Document(ImageId[batch[r][n]],
                                                results[r][n].md), store)

\* A batch of three fetches with metadata has completed: one insert raised,
\* two records were inserted, and another batch follows.
C9_Witness ==
    /\ Persisted(1)
    /\ Len(ins[1]) = 3
    /\ \E m \in 1..3 :
          /\ ins[1][m] = "fault"
          /\ \A n \in (1..3) \ {m} : ins[1][n] = "ok"
    /\ DelayDue(1)

\* C10: every run that started closes its client; it closes it once, when
\* nothing of the run is left to do, and nothing is read, inserted or fetched
\* afterwards.
C10_ClosedOnceAtTheEnd ==
    /\ \A r \in Runs : (pc[r] # "idle") ~> (conn[r] = "closed")
    /\ [](\A r \in Runs :
            /\ closes[r] <= 1
            /\ pc[r] = "done" => conn[r] = "closed"
            /\ conn[r] = "closed" =>
                   (closes[r] = 1 /\ pc[r] = "done" /\ tasks[r] = <<>>))
    /\ [][\A r \in Runs :
            conn[r] = "closed" =>
                (conn'[r] = "closed" /\ store' = store /\ netCalls'[r] = netCalls[r])]_vars

\* The client was closed after the run failed on the existence check.
C10_Witness == conn[1] = "closed" /\ status[1] = "failed" /\ exc[1] = "find_one"

\* The calls of get_cloudflare_metadata of the current fan-out of run r that
\* have issued their GET and not returned.
OpenTasks(r) == {t \in 1..Len(tasks[r]) : tasks[r][t].at \in {"inflight", "sleeping"}}

\* C11: batches are strictly sequential.  Every fetch that has not returned
\* is a coroutine of the fan-out of the current batch, so process_batch does
\* not return, and no later batch starts, while a fetch is open; while a
\* batch is checked, fetched or persisted every delay of the earlier batches
\* has elapsed; a batch that returns after a fan-out has visited every
\* result; and a batch starts from the driver's loop with nothing of an
\* earlier batch left.
C11_BatchesSequential ==
    /\ [](\A r \in Runs :
            /\ netOpen[r] = Cardinality(OpenTasks(r))
            /\ netOpen[r] > 0 => pc[r] = "gather"
            /\ \A t \in 1..Len(tasks[r]) : tasks[r][t].pos \in 1..Len(batch[r])
            /\ pc[r] \in {"check", "gather", "persist", "after_batch"} =>
                   (delays[r] * BATCH_SIZE = i[r] /\ batch[r] = Slice(urls[r], i[r]))
            /\ Persisted(r) => Len(ins[r]) = Len(results[r]))
    /\ [][\A r \in Runs :
            (pc'[r] = "check" /\ pc[r] # "check") =>
                /\ pc[r] = "for"
                /\ netOpen[r] = 0
                /\ tasks[r] = <<>> /\ results[r] = <<>> /\ ins[r] = <<>>]_vars

\* The second batch has a fetch in flight, after the first batch inserted a
\* record and the delay after it elapsed.
C11_Witness ==
    /\ pc[1] = "gather"
    /\ i[1] = BATCH_SIZE
    /\ delays[1] = 1
    /\ netOpen[1] > 0
    /\ store # store0

\* ceil(n / BATCH_SIZE): the number of batches of a working set of n URLs.
NumBatches(n) == (n + BATCH_SIZE - 1) \div BATCH_SIZE

\* Run r has processed every batch: line 134 was reached and the client is
\* not closed yet.
Completed(r) == pc[r] = "finally" /\ status[r] = "completed"

\* C12: a run that processed all k >= 1 batches of its working set has slept
\* k - 1 times; when a batch has returned the driver sleeps exactly if it was
\* not the last of the k batches, whether or not the batch fetched anything,
\* and the sleeps are counted one by one.
C12_DelaysBetweenBatches ==
    /\ [](\A r \in Runs :
            (Completed(r) /\ Len(urls[r]) >= 1) =>
                delays[r] = NumBatches(Len(urls[r])) - 1)
    /\ [][\A r \in Runs :
            /\ (pc[r] = "after_batch" /\ pc'[r] # "after_batch") =>
                   ((pc'[r] = "sleep") <=>
                        ((i[r] \div BATCH_SIZE) + 1 < NumBatches(Len(urls[r]))))
            /\ delays'[r] = delays[r] + (IF pc'[r] = "sleep" /\ pc[r] # "sleep" THEN 1 ELSE 0)]_vars

\* A run over seven URLs has completed after two delays; the last batch held
\* one URL, without identifier.
C12_Witness ==
    /\ Completed(1)
    /\ Len(urls[1]) = 7
    /\ delays[1] = 2
    /\ ~Truthy(ImageId[urls[1][7]])

\* Every image URL of every car.
UrlsOfCars == UNION {Range(cars[c].images) : c \in 1..Len(cars)}

\* Run r is in process_batch.
InBatch(r) == pc[r] \in {"check", "gather", "persist", "after_batch"}

\* C13: the working set holds every image URL of the cars once, also one
\* that several cars share; each batch is the slice of at most BATCH_SIZE
\* consecutive URLs that starts where the batch before it ended, full unless
\* it is the last; the driver moves on by BATCH_SIZE after each batch and by
\* nothing else, and a run that completed has processed ceil(n / BATCH_SIZE)
\* batches, which therefore hold every URL of the working set once.
C13_Partition ==
    /\ [](\A r \in Runs :
            /\ (InBatch(r) \/ pc[r] \in {"for", "sleep"} \/ Completed(r)) =>
                   /\ Range(urls[r]) = UrlsOfCars
                   /\ \A m, n \in 1..Len(urls[r]) : urls[r][m] = urls[r][n] => m = n
                   /\ i[r] % BATCH_SIZE = 0
            /\ InBatch(r) =>
                   /\ i[r] < Len(urls[r])
                   /\ Len(batch[r]) = IF i[r] + BATCH_SIZE <= Len(urls[r])
                                      THEN BATCH_SIZE ELSE Len(urls[r]) - i[r]
                   /\ \A n \in 1..Len(batch[r]) : batch[r][n] = urls[r][i[r] + n]
            /\ Completed(r) => i[r] = NumBatches(Len(urls[r])) * BATCH_SIZE)
    /\ [][\A r \in Runs :
            /\ i'[r] # i[r] =>
                   \/ pc'[r] = "done"
                   \/ /\ i'[r] = i[r] + BATCH_SIZE
                      /\ pc[r] \in {"after_batch", "sleep"}
                      /\ pc'[r] = "for"
            /\ (pc[r] = "for" /\ pc'[r] = "for") => i'[r] = i[r]
            /\ (pc[r] \in {"after_batch", "sleep"} /\ pc'[r] = "for") =>
                   i'[r] = i[r] + BATCH_SIZE]_vars

\* The third batch of a working set of seven URLs, which two cars share, is
\* the seventh URL alone.
C13_Witness ==
    /\ pc[1] = "check"
    /\ Len(urls[1]) = 7
    /\ i[1] = 2 * BATCH_SIZE
    /\ batch[1] = <<urls[1][7]>>
    /\ cars[1].images # <<>> /\ Range(cars[1].images) = Range(cars[2].images)

\* The positions of the separators of a path.
Slashes(s) == {n \in 1..Len(s) : s[n] = "/"}

\* C14: extract_image_id never raises; it returns None when urlparse
\* rejects the URL or the path has fewer than 5 segments (fewer than 4
\* separators), and otherwise what stands between the fourth separator of
\* the path and the next one (or the end of the path).
C14_ExtractImageId ==
    /\ px # "raised"
    /\ px = "returned" =>
           LET parsed == urlparse(callUrl)
               seps == Slashes(parsed.path)
           IN  IF parsed.fault \/ Cardinality(seps) + 1 < 5
               THEN ret = None
               ELSE \E a \in seps :
                       /\ Cardinality({m \in seps : m < a}) = 3
                       /\ LET later == {m \in seps : m > a} \cup {Len(parsed.path) + 1}
                              b == CHOOSE m \in later : \A k \in later : m <= k
                          IN  ret = SubSeq(parsed.path, a + 1, b - 1)

\* The call returned the non-empty fifth segment of a path whose third and
\* fourth segments are empty.
C14_Witness ==
    /\ px = "returned"
    /\ ret = <<"a">>
    /\ callUrl = <<"/", "a", "/", "/", "/", "a">>

\* The response is HTTP 200 with the success flag true.
Success(resp) == ~resp.exc /\ resp.status = 200 /\ resp.success

\* C15: with the credentials set no call of get_cloudflare_metadata raises;
\* a call that has returned returned the metadata mapping of its response
\* (an empty one included) if the response was HTTP 200 with the success
\* flag true, and None for every other response and for a fault of the
\* transport; while a call sleeps after HTTP 429 it has returned nothing.
C15_FetcherResult ==
    creds =>
        \A r \in Runs :
            /\ exc[r] # "credentials"
            /\ \A t \in 1..Len(tasks[r]) :
                   LET task == tasks[r][t]
                   IN  /\ task.at # "raised"
                       /\ task.at = "sleeping" =>
                              (task.resp.status = 429 /\ task.result = NoResult)
                       /\ task.at = "done" =>
                              /\ task.resp # NoResponse
                              /\ IF Success(task.resp)
                                 THEN task.result = Mapping(task.resp.metadata)
                                 ELSE task.result = NoResult
                              /\ task.result # NoResult => Success(task.resp)

\* The three calls of a fan-out have returned: one got metadata, one a
\* fault of the transport, one HTTP 429.
C15_Witness ==
    /\ creds
    /\ pc[1] = "gather"
    /\ Len(tasks[1]) = 3
    /\ \A t \in 1..3 : tasks[1][t].at = "done"
    /\ Success(tasks[1][1].resp) /\ tasks[1][1].result.md # EmptyDict
    /\ tasks[1][2].resp.exc
    /\ tasks[1][3].resp.status = 429

\* C16: every call of get_cloudflare_metadata that returned nothing for a
\* response of HTTP 200 with the success flag false, or for a status that is
\* neither 200 nor 429, has logged an error with the status code (line 58).
C16_DroppedIsLogged ==
    \A r \in Runs : \A t \in 1..Len(tasks[r]) :
        LET task == tasks[r][t]
        IN  (/\ task.at = "done"
             /\ ~task.resp.exc
             /\ task.resp.status # 429
             /\ ~Success(task.resp))
                => (task.result = NoResult /\ task.log = "error")

\* C17: in a run get_cloudflare_metadata runs at most once for each URL, and
\* only for URLs of the working set; a fan-out has at most one coroutine for
\* each URL of its batch, so the GETs of a run are no more than the URLs it
\* fetched; and a call that slept after HTTP 429 only returns: it never
\* issues its request again.
C17_FetchedAtMostOnce ==
    /\ [](\A r \in Runs :
            /\ \A u \in AllUrls :
                   /\ fetchCount[r][u] <= 1
                   /\ fetchCount[r][u] = 1 => u \in Range(urls[r])
            /\ Len(tasks[r]) <= Len(batch[r])
            /\ \A s, t \in 1..Len(tasks[r]) : tasks[r][s].pos = tasks[r][t].pos => s = t
            /\ pc[r] # "done" =>
                   netCalls[r] <= Cardinality({u \in AllUrls : fetchCount[r][u] = 1}))
    /\ [][\A r \in Runs : \A t \in 1..Len(tasks[r]) :
            (tasks[r][t].at \in {"sleeping", "done"} /\ t <= Len(tasks'[r])) =>
                tasks'[r][t].at \in {"sleeping", "done"}]_vars

\* A fan-out of three calls has issued three GETs; the call that got HTTP
\* 429 has slept and returned, and its URL was fetched once.
C17_Witness ==
    /\ pc[1] = "gather"
    /\ Len(tasks[1]) = 3
    /\ netCalls[1] = 3
    /\ \E t \in 1..3 :
          /\ tasks[1][t].at = "done"
          /\ tasks[1][t].resp.status = 429
          /\ fetchCount[1][batch[1][tasks[1][t].pos]] = 1

\* C18: nothing ties the existence check of a run to its insert.  A result
\* with metadata is inserted, whatever the store holds by then, unless the
\* insert raises; and a record that appears in the store after a run passed
\* the existence check leaves the fetch of that run in place.
C18_CheckThenInsertNotAtomic ==
    [][\A r \in Runs :
         /\ (Len(ins'[r]) = Len(ins[r]) + 1 /\ ResultTruthy(results[r][zipAt[r]])) =>
                LET doc == Document(ImageId[batch[r][zipAt[r]]], results[r][zipAt[r]].md)
                IN  \/ ins'[r][Len(ins'[r])] = "ok" /\ store' = store (+) SetToBag({doc})
                    \/ ins'[r][Len(ins'[r])] = "fault" /\ store' = store
         /\ (store' # store /\ pc'[r] = pc[r]) =>
                (tasks'[r] = tasks[r] /\ results'[r] = results[r])]_vars

\* Two runs over the one delivery URL of image a, the store empty at the
\* start: both passed the existence check, both got the metadata of a and
\* both inserted it; the store holds two records of a.
C18_Witness ==
    /\ store0 = EmptyBag
    /\ UrlsOfCars = {UrlA}
    /\ \A r \in Runs :
          /\ pc[r] = "after_batch"
          /\ batch[r] = <<UrlA>>
          /\ results[r] = <<Mapping(RemoteMetadata(<<"a">>))>>
          /\ ins[r] = <<"ok">>
    /\ CountFor(<<"a">>, store) = 2

\* C19: while a call of the fan-out sleeps after HTTP 429 every other call
\* can take its next step (start, or get its response and return); nothing
\* is inserted and the persisting loop does not start while a call of the
\* run is open, the sleeping one included; and when the batch has returned,
\* every result with metadata was handed to insert_one.
C19_SleepBlocksOnlyItsTask ==
    /\ [](\A r \in Runs :
            /\ \A s, t \in 1..Len(tasks[r]) :
                   (pc[r] = "gather" /\ tasks[r][s].at = "sleeping") =>
                       /\ tasks[r][t].at = "inflight" => ENABLED TaskRespond(r, t)
                       /\ tasks[r][t].at = "new" => ENABLED TaskStart(r, t)
            /\ (pc[r] = "persist" \/ ins[r] # <<>>) =>
                   (netOpen[r] = 0 /\ OpenTasks(r) = {})
            /\ Persisted(r) =>
                   \A n \in 1..Len(results[r]) :
                       ResultTruthy(results[r][n]) =>
                           (n <= Len(ins[r]) /\ ins[r][n] \in {"ok", "fault"}))
    /\ [][store' # store => \A r \in Runs : netOpen[r] = 0 /\ netOpen'[r] = 0]_vars

\* One call of a fan-out of three sleeps after HTTP 429, another has
\* returned metadata, and the third is still in flight.
C19_Witness ==
    /\ pc[1] = "gather"
    /\ Len(tasks[1]) = 3
    /\ \E s, t, u \in 1..3 :
          /\ tasks[1][s].at = "sleeping"
          /\ tasks[1][t].at = "done" /\ ResultTruthy(tasks[1][t].result)
          /\ tasks[1][u].at = "inflight"

\* C20: every record that is in the store and was not there before the run
\* has as its imageId a non-empty identifier of a URL of the working set:
\* never None, and never a value taken from the metadata.
C20_RecordKeyedByIdentifier ==
    \A doc \in BagToSet(store) :
        ~BagIn(doc, store0) =>
            (Truthy(doc["imageId"]) /\ doc["imageId"] \in IdsOf(cars))

====
